---- MODULE Spec2Model ----
(***************************************************************************)
(* Model of the GAM sensitivity stage of gp-gam-optimisation-pipeline:     *)
(*   scripts/utils/path_shim.py        find_gp_file (response discovery)   *)
(*   scripts/gam/baseline/GAM_baseline.py   load_lhc_first_n and main      *)
(*                                                                         *)
(* File names are sequences of one-character strings, so that formatting,  *)
(* regular-expression matching and substring tests are computed on the     *)
(* characters.  Grid coordinates are exact binary fractions, held as a     *)
(* number of sixteenths (34.375 = 550/16, -10.3125 = -165/16).             *)
(* Matrix values are integers counting units of 1e-8; three integer codes  *)
(* stand for NaN, +Inf and -Inf.  Arithmetic is exact.                     *)
(***************************************************************************)
EXTENDS Integers, Sequences, FiniteSets, TLC

VARIABLES
    req,        \* command line: [ilat, ilon, month]
    dirs,       \* the lat<lat> folders that exist, by search root
    files,      \* GP output files: records [root, id, mtime]
    raws,       \* ids of the raw demo inputs in the tiny input directory
    gp_data,    \* text matrix held by the file discovery returns
    lhc_file,   \* text matrix held by the raw LHC sample file
    pc,         \* position of main()
    err,        \* the exception that ended the run, "" if none
    gp_file,    \* result of find_gp_file: [kind, root, id]
    N_gp,       \* count parsed from the GP file name, None if absent
    y,          \* response vector
    X,          \* parameter matrix returned by load_lhc_first_n
    Xn,         \* cleaned parameter rows
    yn,         \* cleaned responses
    gam,        \* the fitted surface
    variances,  \* importance vector
    grad_sign,  \* sign vector
    med,        \* column-wise median of Xn
    X_med,      \* the reused design buffer
    i,          \* loop index of the sweep (0-based, as in the source)
    y_pred,     \* predictions of the last evaluation of the surface
    evaluated,  \* indices for which gam.predict was called
    gam_dir,    \* whether the output folder GAM_DIR exists
    out_var,    \* the variance file on disk: [exists, n, complete, data]
    out_sign,   \* the sign file on disk: [exists, n, complete, data]
    util,       \* the comparison utility that runs, "none" during main()
    scripts,    \* whether the baseline and optimised scripts exist
    tasks,      \* number of rows of examples/tasks_table.csv
    cpc,        \* position of the comparison utility's main()
    cerr,       \* the exception or exit that ended the utility, "" if none
    mode,       \* the case being run: "baseline" or "optimised"
    task,       \* 1-based index of the grid point or task being run
    launched,   \* subprocess runs so far: [mode, task, spawned, returncode]
    rows,       \* timing rows collected: [mode, task, ok, elapsed]
    moved,      \* modes whose new output files were moved to their folder
    csv         \* comparison tables written by this run

vars == <<req, dirs, files, raws, gp_data, lhc_file, pc, err, gp_file, N_gp, y, X,
          Xn, yn, gam, variances, grad_sign, med, X_med, i, y_pred, evaluated,
          gam_dir, out_var, out_sign, util, scripts, tasks, cpc, cerr, mode, task,
          launched, rows, moved, csv>>

\* the state of the comparison utilities
compare == <<util, scripts, tasks, cpc, cerr, mode, task, launched, rows, moved, csv>>

----------------------------------------------------------------------------
(* Bounds of the model *)

MaxFiles == 2      \* GP output files present at once
MaxRows == 3       \* rows of the response vector

----------------------------------------------------------------------------
(* Characters and strings *)

DIGITS == <<"0", "1", "2", "3", "4", "5", "6", "7", "8", "9">>

IsDigit(c) == \E d \in 1..10 : DIGITS[d] = c

DigitValue(c) == (CHOOSE d \in 1..10 : DIGITS[d] = c) - 1

RECURSIVE DigitsOf(_)
\* decimal digits of a natural number
DigitsOf(n) == IF n < 10 THEN <<DIGITS[n + 1]>>
               ELSE DigitsOf(n \div 10) \o <<DIGITS[(n % 10) + 1]>>

RECURSIVE Pow10(_)
Pow10(d) == IF d = 0 THEN 1 ELSE 10 * Pow10(d - 1)

RECURSIVE Padded(_, _)
\* n in exactly d digits, zero-filled on the left
Padded(n, d) == IF d = 0 THEN <<>>
                ELSE Padded(n \div 10, d - 1) \o <<DIGITS[(n % 10) + 1]>>

RECURSIVE ParseInt(_)
\* int("0123") = 123
ParseInt(s) == IF s = <<>> THEN 0
               ELSE 10 * ParseInt(SubSeq(s, 1, Len(s) - 1)) + DigitValue(s[Len(s)])

Abs(n) == IF n < 0 THEN -n ELSE n

\* f"{v:.<d>f}" of the float v16/16: correctly rounded, ties to even
FormatFixed(v16, d) ==
    LET q == Abs(v16) * Pow10(d)
        lo == q \div 16
        rem == q % 16
        n == IF rem > 8 \/ (rem = 8 /\ lo % 2 = 1) THEN lo + 1 ELSE lo
    IN  (IF v16 < 0 THEN <<"-">> ELSE <<>>)
        \o DigitsOf(n \div Pow10(d)) \o <<".">> \o Padded(n % Pow10(d), d)

RECURSIVE StripZeros(_)
\* drops trailing zeros of a fraction, keeping one digit
StripZeros(s) == IF Len(s) > 1 /\ s[Len(s)] = "0"
                 THEN StripZeros(SubSeq(s, 1, Len(s) - 1)) ELSE s

\* f"{v}" (repr) of the float v16/16: the shortest decimal that reads back
FormatRepr(v16) ==
    LET n == Abs(v16) * 625
    IN  (IF v16 < 0 THEN <<"-">> ELSE <<>>)
        \o DigitsOf(n \div 10000) \o <<".">> \o StripZeros(Padded(n % 10000, 4))

\* needle in hay (Python's substring test)
Contains(hay, needle) ==
    \E s \in 0..(Len(hay) - Len(needle)) :
        \A k \in 1..Len(needle) : hay[s + k] = needle[k]

EndsWith(s, tail) ==
    /\ Len(s) >= Len(tail)
    /\ \A k \in 1..Len(tail) : s[Len(s) - Len(tail) + k] = tail[k]

StartsWith(s, head) ==
    /\ Len(s) >= Len(head)
    /\ \A k \in 1..Len(head) : s[k] = head[k]

----------------------------------------------------------------------------
(* File names *)

PREFIX == <<"e","m","u","l","a","t","e","d","_","m","e","a","n","_",
            "v","a","l","u","e","s","_","H","2","S","O","4","_">>
ILAT == <<"_","i","l","a","t","_">>
ILON == <<"_","i","l","o","n","_">>
W_O_CARB == <<"_","w","_","o","_","c","a","r","b",".","d","a","t">>
DOT_DAT == <<".","d","a","t">>
JAN == <<"j","a","n">>
FEB == <<"f","e","b">>

\* emulated_mean_values_H2SO4_<month>_ilat_<lat>_ilon_<lon>_<count>_w_o_carb.dat
GpName(month, lat, lon, count) ==
    PREFIX \o month \o ILAT \o lat \o ILON \o lon \o <<"_">> \o count \o W_O_CARB

\* lat_<lat>_lon_<lon>.dat
RawName(lat, lon) ==
    <<"l","a","t","_">> \o lat \o <<"_","l","o","n","_">> \o lon \o DOT_DAT

LAT_375 == <<"3","4",".","3","7","5">>
LON_3125 == <<"-","1","0",".","3","1","2","5">>

\* The file names of the model, by id
NameTable ==
    [ E3 |-> GpName(JAN, LAT_375, LON_3125, <<"3">>),
      E2 |-> GpName(JAN, LAT_375, LON_3125, <<"0", "2">>),
      R3 |-> GpName(JAN, LAT_375, <<"-","1","0",".","3","1","2">>, <<"3">>),
      H5 |-> GpName(JAN, LAT_375, <<"-","1","0",".","5">>, <<"3">>),
      S0 |-> PREFIX \o JAN \o ILAT \o LAT_375 \o ILON \o LON_3125 \o DOT_DAT,
      F3 |-> GpName(FEB, LAT_375, LON_3125, <<"3">>),
      RAW4 |-> RawName(LAT_375, LON_3125),
      RAW3 |-> RawName(LAT_375, <<"-","1","0",".","3","1","2">>) ]

GpIds == {"E3", "E2", "R3", "H5", "S0", "F3"}
RawIds == {"RAW4", "RAW3"}

NameOf(id) == NameTable[id]

----------------------------------------------------------------------------
(* find_gp_file *)

SearchRoots == <<"baseline", "optimised", "plain">>

\* A pattern is a sequence of elements: Wild matches any one character,
\* every other element matches itself.
Wild == "ANY"

\* a formatted number put into a pattern as it is: its "." is the regex dot
Unescaped(s) == [k \in 1..Len(s) |-> IF s[k] = "." THEN Wild ELSE s[k]]

\* re.escape: every character stands for itself
ReEscape(s) == [k \in 1..Len(s) |-> s[k]]

\* ^emulated_mean_values_H2SO4_<month>_ilat_<lat>_ilon_<lon>_ , before (\d+)
PatternHead(month, lat, lon) ==
    PREFIX \o ReEscape(month) \o ILAT \o Unescaped(lat) \o ILON \o Unescaped(lon)
    \o <<"_">>

\* re.match of  <head>(\d+)_w_o_carb\.dat$  on name
Matches(head, name) ==
    LET lh == Len(head)
        ln == Len(name)
        lt == Len(W_O_CARB)
    IN  /\ ln > lh + lt
        /\ \A k \in 1..lh : head[k] = Wild \/ head[k] = name[k]
        /\ \A k \in (lh + 1)..(ln - lt) : IsDigit(name[k])
        /\ EndsWith(name, W_O_CARB)

precise(r) == PatternHead(r.month, FormatFixed(r.ilat, 3), FormatFixed(r.ilon, 4))

relaxed_patterns(r) ==
    << PatternHead(r.month, FormatFixed(r.ilat, 3), FormatFixed(r.ilon, 3)),
       PatternHead(r.month, FormatRepr(r.ilat), FormatRepr(r.ilon)) >>

\* root.glob("emulated_mean_values_H2SO4_*.dat")
GlobEmulated(fs, root) ==
    {f \in fs : /\ f.root = root
                /\ Len(NameOf(f.id)) >= Len(PREFIX) + Len(DOT_DAT)
                /\ StartsWith(NameOf(f.id), PREFIX)
                /\ EndsWith(NameOf(f.id), DOT_DAT)}

\* root.glob("*.dat")
GlobDat(fs, root) == {f \in fs : f.root = root /\ EndsWith(NameOf(f.id), DOT_DAT)}

\* 1) the precise pattern
Tier1(fs, r, root) == {f \in GlobEmulated(fs, root) : Matches(precise(r), NameOf(f.id))}

\* 2) the relaxed patterns, the first that matches anything
Tier2(fs, r, root) ==
    LET a == {f \in GlobEmulated(fs, root) : Matches(relaxed_patterns(r)[1], NameOf(f.id))}
        b == {f \in GlobEmulated(fs, root) : Matches(relaxed_patterns(r)[2], NameOf(f.id))}
    IN  IF a # {} THEN a ELSE b

\* 3) tokens in the name
Tier3(fs, r, root) ==
    {f \in GlobDat(fs, root) :
        /\ Contains(NameOf(f.id), PREFIX)
        /\ Contains(NameOf(f.id), r.month)
        /\ Contains(NameOf(f.id), FormatFixed(r.ilat, 3))
        /\ Contains(NameOf(f.id), FormatFixed(r.ilon, 3))}

\* variant: the token test is tried before the relaxed patterns
RootCandidates_tokensFirst(ds, fs, r, root) ==
    IF root \notin ds THEN {}
    ELSE IF Tier1(fs, r, root) # {} THEN Tier1(fs, r, root)
    ELSE IF Tier3(fs, r, root) # {} THEN Tier3(fs, r, root)
    ELSE Tier2(fs, r, root)

\* the body of the loop over search_roots, for one root
RootCandidates(ds, fs, r, root) ==
    IF root \notin ds THEN {}
    ELSE IF Tier1(fs, r, root) # {} THEN Tier1(fs, r, root)
    ELSE IF Tier2(fs, r, root) # {} THEN Tier2(fs, r, root)
    ELSE Tier3(fs, r, root)

RECURSIVE CandidatesFrom(_, _, _, _)
\* the loop over search_roots from position k: it stops at the first root
\* that yields a candidate
CandidatesFrom(ds, fs, r, k) ==
    IF k > Len(SearchRoots) THEN {}
    ELSE IF RootCandidates(ds, fs, r, SearchRoots[k]) # {}
         THEN RootCandidates(ds, fs, r, SearchRoots[k])
         ELSE CandidatesFrom(ds, fs, r, k + 1)

\* candidates.sort(key=mtime, reverse=True); candidates[0]: a newest candidate
\* (files of equal mtime keep the order the directory listing gave them)
Newest(cands) == {f \in cands : \A g \in cands : g.mtime <= f.mtime}

\* tiny_input_dir(repo) / f"lat_{ilat:.3f}_lon_{ilon:.3f}.dat"
RawFallbackName(r) == RawName(FormatFixed(r.ilat, 3), FormatFixed(r.ilon, 3))

\* The files find_gp_file may return; empty when it raises FileNotFoundError
find_gp_file(ds, fs, rs, r) ==
    LET candidates == CandidatesFrom(ds, fs, r, 1)
    IN  IF candidates = {}
        THEN {[kind |-> "raw", root |-> "input", id |-> id] :
                  id \in {q \in rs : NameOf(q) = RawFallbackName(r)}}
        ELSE {[kind |-> "gp", root |-> f.root, id |-> f.id] : f \in Newest(candidates)}

----------------------------------------------------------------------------
(* Numbers and arrays *)

\* codes of the non-finite floats
NaN == 2000000001
PosInf == 2000000002
NegInf == 2000000003

\* np.isfinite
isfinite(v) == v \notin {NaN, PosInf, NegInf}

\* Python's None, equal to no length
None == -1

RECURSIVE Sum(_)
Sum(s) == IF s = <<>> THEN 0 ELSE s[1] + Sum(Tail(s))

Column(M, j) == [r \in 1..Len(M) |-> M[r][j]]

RECURSIVE Compress(_, _)
\* a[mask]: the entries whose mask is true, in order
Compress(a, mask) ==
    IF a = <<>> THEN <<>>
    ELSE (IF mask[1] THEN <<a[1]>> ELSE <<>>) \o Compress(Tail(a), Tail(mask))

\* n * sum(a*b) - sum(a) * sum(b): n(n-1) times the sample covariance
CoMoment(a, b) ==
    Len(a) * Sum([r \in 1..Len(a) |-> a[r] * b[r]]) - Sum(a) * Sum(b)

\* np.loadtxt of a text matrix: numpy squeezes axes of length one
loadtxt(m) ==
    LET nr == Len(m)
        nc == IF nr = 0 THEN 0 ELSE Len(m[1])
    IN  IF nr = 0 THEN [ndim |-> 1, shape |-> <<0>>, flat |-> <<>>, mat |-> <<>>]
        ELSE IF nr = 1 /\ nc = 1
             THEN [ndim |-> 0, shape |-> <<>>, flat |-> m[1], mat |-> <<>>]
        ELSE IF nr = 1
             THEN [ndim |-> 1, shape |-> <<nc>>, flat |-> m[1], mat |-> <<>>]
        ELSE IF nc = 1
             THEN [ndim |-> 1, shape |-> <<nr>>, flat |-> Column(m, 1), mat |-> <<>>]
        ELSE [ndim |-> 2, shape |-> <<nr, nc>>, flat |-> <<>>, mat |-> m]

----------------------------------------------------------------------------
(* GAM_baseline.py *)

PAR_INDEX ==
    << 0, 1, 2, 20, 21, 22, 23, 24, 25, 26, 27, 28, 29, 30, 31, 32,
       33, 34, 35, 36, 37, 38, 39, 40, 41, 43, 44, 45, 46, 47, 48,
       49, 50, 51, 52, 53, 54 >>

NCOLS_RAW == 55

\* variant: the first 37 columns instead of the PAR_INDEX columns
FirstRows_noSubset(LHC, rows_needed) ==
    [r \in 1..rows_needed |-> [k \in 1..Len(PAR_INDEX) |-> LHC[r][k]]]

\* LHC[:rows_needed, :][:, PAR_INDEX]
FirstRows(LHC, rows_needed) ==
    [r \in 1..rows_needed |-> [k \in 1..Len(PAR_INDEX) |-> LHC[r][PAR_INDEX[k] + 1]]]

load_lhc_first_n(sample, rows_needed) ==
    IF ~sample.exists
    THEN [ok |-> FALSE, err |-> "FileNotFoundError: Missing LHC sample file", X |-> <<>>]
    ELSE LET LHC == loadtxt(sample.rows)
         IN  IF LHC.ndim # 2 \/ LHC.shape[2] < NCOLS_RAW
             THEN [ok |-> FALSE, err |-> "ValueError: LHC must be [n,>=55]", X |-> <<>>]
             ELSE IF LHC.shape[1] < rows_needed
             THEN [ok |-> FALSE, err |-> "ValueError: LHC has too few rows", X |-> <<>>]
             ELSE [ok |-> TRUE, err |-> "", X |-> FirstRows(LHC.mat, rows_needed)]

\* m = re.search(r"_(\d+)_w_o_carb\.dat$", name); int(m.group(1)) if m else None
ParseCount(name) ==
    LET ln == Len(name)
        lt == Len(W_O_CARB)
        starts == {j \in 1..(ln - lt - 1) :
                      /\ name[j] = "_"
                      /\ \A k \in (j + 1)..(ln - lt) : IsDigit(name[k])}
    IN  IF EndsWith(name, W_O_CARB) /\ starts # {}
        THEN LET j == CHOOSE q \in starts : \A p \in starts : q <= p
             IN  ParseInt(SubSeq(name, j + 1, ln - lt))
        ELSE None

\* y = np.loadtxt(gp_file); first column of a matrix; ravel
ResponseVector(m) ==
    LET a == loadtxt(m)
    IN  IF a.ndim = 2 /\ a.shape[2] > 1 THEN Column(a.mat, 1) ELSE a.flat

\* variant: only the response is tested
FiniteMask_responseOnly(Xm, yv) == [r \in 1..Len(yv) |-> isfinite(yv[r])]

\* mask = isfinite(y) & isfinite(X[:, 0]) & ... & isfinite(X[:, 36])
FiniteMask(Xm, yv) ==
    [r \in 1..Len(yv) |->
        isfinite(yv[r]) /\ \A j \in 1..Len(PAR_INDEX) : isfinite(Xm[r][j])]

\* variant: only an empty mask is fatal
NoFiniteRows_emptyOnly(mask) == Len(mask) = 0

\* np.any(mask) is false
NoFiniteRows(mask) == \A r \in 1..Len(mask) : ~mask[r]

\* np.median of a column of finite values (the inputs are even, so the mean
\* of the two middle values is exact); nan for an empty column
Median(col) ==
    LET s == SortSeq(col, LAMBDA a, b : a < b)
        n == Len(s)
    IN  IF n = 0 THEN NaN
        ELSE IF n % 2 = 1 THEN s[(n + 1) \div 2]
        ELSE (s[n \div 2] + s[(n \div 2) + 1]) \div 2

\* 1e-24 = (1e-12)^2 is 1/STD_TOL_INV of a squared unit; 1e-15 is EPS_VAR of them
STD_TOL_INV == 100000000
EPS_VAR == 10

\* variant: no guard on the spread of the column
StdBelowTol_never(xcol) == FALSE

\* np.nanstd(xcol) < 1e-12, for a column of n values:
\* std^2 = CoMoment / n^2 squared units
StdBelowTol(xcol) ==
    LET v == Compress(xcol, [r \in 1..Len(xcol) |-> xcol[r] # NaN])
        n == Len(v)
    IN  n > 0 /\ CoMoment(v, v) <= (n * n - 1) \div STD_TOL_INV

\* vx < eps_var, vx = np.var(xv, ddof=1) = CoMoment / (n(n-1)) squared units
VarBelowEps(xv) ==
    LET n == Len(xv)
    IN  CoMoment(xv, xv) < EPS_VAR * n * (n - 1)

Zero == [num |-> 0, den |-> 1]

\* variant: the two branches exchanged
SignOf_flipped(slope) == IF slope.num > 0 THEN -1 ELSE IF slope.num < 0 THEN 1 ELSE 0

\* variant: the slope itself is stored, not its sign
SignOf_slope(slope) == slope.num \div slope.den

\* 1.0 if slope > 0 else (-1.0 if slope < 0 else 0.0)
SignOf(slope) == IF slope.num > 0 THEN 1 ELSE IF slope.num < 0 THEN -1 ELSE 0

\* variant: the buffer is not reset between parameters
ResetBuffer_stale(buf, m) == buf

\* X_med[:, :] = med
ResetBuffer(buf, m) == [r \in 1..Len(buf) |-> m]

\* X_med[:, i] = xcol
SetColumn(buf, j, col) == [r \in 1..Len(buf) |-> [buf[r] EXCEPT ![j] = col[r]]]

\* The surfaces LinearGAM().fit may return (the library is outside the repository):
\* pure functions of a 37-vector
Surfaces ==
    {[kind |-> "sum", c |-> c, k |-> 1, pivot |-> 0] : c \in {-1, 1}}
    \cup {[kind |-> "col", c |-> c, k |-> 1, pivot |-> 0] : c \in {-2, 2}}
    \cup {
          [kind |-> "vee", c |-> 1, k |-> 1, pivot |-> 20],
          [kind |-> "nan", c |-> 1, k |-> 1, pivot |-> 20]}

\* gam.predict on one row
predict(g, row) ==
    CASE g.kind = "sum" -> g.c * Sum(row)
      [] g.kind = "col" -> g.c * row[g.k]
      [] g.kind = "vee" -> g.c * Abs(row[g.k] - g.pivot)
      [] g.kind = "nan" -> IF row[g.k] > g.pivot THEN NaN ELSE row[g.k]

\* the body of the loop over the parameters for 0-based index n, as
\* [variance, sign, X_med, y_pred, called]
SweepOne(g, XN, m, buf, last, n) ==
    LET xcol == Column(XN, n + 1)
    IN  IF StdBelowTol(xcol)
        THEN [variance |-> Zero, sign |-> 0, X_med |-> buf, y_pred |-> last,
              called |-> FALSE]
        ELSE LET design == SetColumn(ResetBuffer(buf, m), n + 1, xcol)
                 pred == [r \in 1..Len(design) |-> predict(g, design[r])]
                 finite == [r \in 1..Len(pred) |-> isfinite(xcol[r]) /\ isfinite(pred[r])]
                 yv == Compress(pred, finite)
                 xv == Compress(xcol, finite)
                 nv == Len(yv)
                 slope == IF VarBelowEps(xv) THEN Zero
                          ELSE [num |-> CoMoment(xv, yv), den |-> CoMoment(xv, xv)]
             IN  IF nv < 2
                 THEN [variance |-> Zero, sign |-> 0, X_med |-> design,
                       y_pred |-> pred, called |-> TRUE]
                 ELSE [variance |-> [num |-> CoMoment(yv, yv), den |-> nv * (nv - 1)],
                       sign |-> SignOf(slope),
                       X_med |-> design, y_pred |-> pred, called |-> TRUE]

\* variant: a count in the file name is always used
NOut_nameFirst(ngp, ylen, n) == IF ngp # None THEN ngp ELSE n

\* N_out = int(N_gp) if (N_gp == len(y)) else int(N)
NOut(ngp, ylen, n) == IF ngp = ylen THEN ngp ELSE n

----------------------------------------------------------------------------
(* Inputs *)

RootSet == {SearchRoots[k] : k \in 1..Len(SearchRoots)}

GpIdSeq == <<"E3", "E2", "R3", "H5", "S0", "F3">>

Slots == {<<root, id>> : root \in RootSet, id \in GpIds}

RECURSIVE SlotSets(_)
\* the sets of at most n slots
SlotSets(n) ==
    IF n = 0 THEN {{}}
    ELSE LET prev == SlotSets(n - 1)
         IN  prev \cup {s \cup {p} : s \in prev, p \in Slots}

\* modification times: distinct, in one of two opposite orders
Stamp(clock, root, id) ==
    LET a == CHOOSE k \in 1..Len(GpIdSeq) : GpIdSeq[k] = id
        b == CHOOSE k \in 1..Len(SearchRoots) : SearchRoots[k] = root
        rank == Len(SearchRoots) * (a - 1) + b
    IN  IF clock = "asc" THEN rank ELSE Len(SearchRoots) * Len(GpIdSeq) + 1 - rank

FilesOf(slots, clock) ==
    {[root |-> p[1], id |-> p[2], mtime |-> Stamp(clock, p[1], p[2])] : p \in slots}

\* raw LHC values: even integers; column c is rising, constant, nearly
\* constant or falling down the rows, by (c + shift) % 4
STEPS == <<10, 0, 1, -10>>

Cell(shift, r, c) == 2 * (c % 7) + 2 * STEPS[((c + shift) % 4) + 1] * r

NoBad == [row |-> 0, col |-> 0, code |-> 0]

LhcRows(nr, nc, shift, bad) ==
    [r \in 1..nr |-> [c \in 1..nc |->
        IF bad.row = r /\ bad.col = c THEN bad.code ELSE Cell(shift, r - 1, c - 1)]]

\* a response file of ylen rows: bad rows hold NaN (odd rows) or +Inf (even rows)
GpRows(ylen, ycols, ybad) ==
    [r \in 1..ylen |-> [c \in 1..ycols |->
        IF c > 1 THEN 7
        ELSE IF r \in ybad THEN (IF r % 2 = 1 THEN NaN ELSE PosInf)
        ELSE 100 + 2 * r]]

\* one non-finite cell of the raw sample: in a selected column (first or
\* last of PAR_INDEX) or in a column that is not selected
BadCells ==
    {NoBad} \cup
    {[row |-> r, col |-> c[1], code |-> c[2]] :
        r \in 1..MaxRows, c \in {<<1, NaN>>, <<4, NegInf>>, <<55, PosInf>>}}

Request(lon) == [ilat |-> 550, ilon |-> lon, month |-> JAN]

\* discovery over many folder contents; the run stops at the missing sample
InitDiscovery ==
    /\ req \in {Request(lon) : lon \in {-165, 165, -168}}
    /\ \E slots \in SlotSets(MaxFiles), clock \in {"asc", "desc"} :
          /\ files = FilesOf(slots, clock)
          /\ dirs = {p[1] : p \in slots}
    /\ raws \in {{}, {"RAW4"}, {"RAW3"}}
    /\ gp_data = GpRows(2, 1, {})
    /\ lhc_file = [exists |-> FALSE, rows |-> <<>>]

\* one response file, or none and the raw demo input
SmallFolders ==
    {[files |-> {[root |-> "baseline", id |-> id, mtime |-> 1]}, raws |-> {}] :
        id \in {"E3", "E2", "S0"}}
    \cup {[files |-> {}, raws |-> {"RAW3"}]}

\* shapes of the two input files
InitShapes ==
    /\ req = Request(-165)
    /\ files = {[root |-> "baseline", id |-> "E3", mtime |-> 1]}
    /\ dirs = {"baseline"}
    /\ raws = {}
    /\ \E ylen \in 0..MaxRows, ycols \in {1, 2} : gp_data = GpRows(ylen, ycols, {})
    /\ \E ex \in BOOLEAN, nr \in 0..(MaxRows + 1), nc \in {54, 55, 56} :
          lhc_file = [exists |-> ex, rows |-> LhcRows(nr, nc, 0, NoBad)]

\* non-finite values in the response and in the sample
InitCleaning ==
    /\ req = Request(-165)
    /\ files = {[root |-> "baseline", id |-> "E3", mtime |-> 1]}
    /\ dirs = {"baseline"}
    /\ raws = {}
    /\ \E ybad \in SUBSET (1..MaxRows) : gp_data = GpRows(MaxRows, 1, ybad)
    /\ \E bad \in BadCells :
          lhc_file = [exists |-> TRUE, rows |-> LhcRows(MaxRows, 55, 2, bad)]

\* the count in the file name against the rows read and the rows kept
InitLabels ==
    /\ req = Request(-165)
    /\ \E f \in SmallFolders : files = f.files /\ raws = f.raws
    /\ dirs = {"baseline"}
    /\ \E ylen \in {2, 3}, ybad \in {{}, {1}} : gp_data = GpRows(ylen, 1, ybad)
    /\ lhc_file = [exists |-> TRUE, rows |-> LhcRows(4, 55, 1, NoBad)]

NoFile == [kind |-> "none", root |-> "", id |-> ""]
NoSurface == [kind |-> "none", c |-> 0, k |-> 0, pivot |-> 0]
NoOutput == [exists |-> FALSE, n |-> 0, complete |-> FALSE, data |-> <<>>]

\* no comparison utility runs
IdleCompare ==
    /\ util = "none"
    /\ scripts = TRUE
    /\ tasks = 0
    /\ cpc = "idle"
    /\ cerr = ""
    /\ mode = "baseline"
    /\ task = 1
    /\ launched = <<>>
    /\ rows = <<>>
    /\ moved = {}
    /\ csv = {}

\* main() has computed nothing yet
FreshRun ==
    /\ err = ""
    /\ gp_file = NoFile
    /\ N_gp = None
    /\ y = <<>>
    /\ X = <<>>
    /\ Xn = <<>>
    /\ yn = <<>>
    /\ gam = NoSurface
    /\ variances = <<>>
    /\ grad_sign = <<>>
    /\ med = <<>>
    /\ X_med = <<>>
    /\ i = 0
    /\ y_pred = <<>>
    /\ evaluated = {}
    /\ gam_dir = FALSE
    /\ out_var = NoOutput
    /\ out_sign = NoOutput

Init ==
    /\ InitDiscovery \/ InitShapes \/ InitCleaning \/ InitLabels
    /\ IdleCompare
    /\ pc = "start"
    /\ FreshRun

----------------------------------------------------------------------------
(* main() *)

inputs == <<req, dirs, files, raws, gp_data, lhc_file>>

Raise(e) == pc' = "error" /\ err' = e

\* GAM_DIR.mkdir(...); gp_file = find_gp_file(REPO, ilat, ilon, month)
FindGp ==
    /\ pc = "start"
    /\ gam_dir' = TRUE
    /\ LET found == find_gp_file(dirs, files, raws, req)
       IN  IF found = {}
           THEN /\ Raise("FileNotFoundError: No GP emulation file found")
                /\ gp_file' = gp_file
           ELSE /\ gp_file' \in found
                /\ pc' = "found"
                /\ err' = err
    /\ UNCHANGED <<compare, inputs, N_gp, y, X, Xn, yn, gam, variances, grad_sign, med, X_med,
                   i, y_pred, evaluated, out_var, out_sign>>

\* N_gp from the name; y = np.loadtxt(gp_file), first column, ravel
LoadY ==
    /\ pc = "found"
    /\ N_gp' = ParseCount(NameOf(gp_file.id))
    /\ y' = ResponseVector(gp_data)
    /\ pc' = "loaded"
    /\ UNCHANGED <<compare, inputs, err, gp_file, X, Xn, yn, gam, variances, grad_sign, med,
                   X_med, i, y_pred, evaluated, gam_dir, out_var, out_sign>>

\* X = load_lhc_first_n(sample_path, len(y))
LoadLHC ==
    /\ pc = "loaded"
    /\ LET res == load_lhc_first_n(lhc_file, Len(y))
       IN  IF res.ok
           THEN X' = res.X /\ pc' = "sampled" /\ err' = err
           ELSE X' = X /\ Raise(res.err)
    /\ UNCHANGED <<compare, inputs, gp_file, N_gp, y, Xn, yn, gam, variances, grad_sign, med,
                   X_med, i, y_pred, evaluated, gam_dir, out_var, out_sign>>

\* the mask of finite rows; Xn = X[mask]; yn = y[mask]
Clean ==
    /\ pc = "sampled"
    /\ LET mask == FiniteMask(X, y)
       IN  IF NoFiniteRows(mask)
           THEN /\ Raise("ValueError: No finite rows remain after cleaning X/y.")
                /\ UNCHANGED <<Xn, yn>>
           ELSE /\ Xn' = Compress(X, mask)
                /\ yn' = Compress(y, mask)
                /\ pc' = "cleaned"
                /\ err' = err
    /\ UNCHANGED <<compare, inputs, gp_file, N_gp, y, X, gam, variances, grad_sign, med, X_med,
                   i, y_pred, evaluated, gam_dir, out_var, out_sign>>

\* gam = LinearGAM().fit(Xn, yn), which may raise; then the vectors of zeros,
\* the medians and the design buffer
FitGam ==
    /\ pc = "cleaned"
    /\ \/ /\ Raise("FitError")
          /\ UNCHANGED <<gam, variances, grad_sign, med, X_med, i>>
       \/ /\ gam' \in Surfaces
          /\ variances' = [k \in 1..Len(PAR_INDEX) |-> Zero]
          /\ grad_sign' = [k \in 1..Len(PAR_INDEX) |-> 0]
          /\ med' = [k \in 1..Len(PAR_INDEX) |-> Median(Column(Xn, k))]
          /\ X_med' = [r \in 1..Len(yn) |-> med']
          /\ i' = 0
          /\ pc' = "sweep"
          /\ err' = err
    /\ UNCHANGED <<compare, inputs, gp_file, N_gp, y, X, Xn, yn, y_pred, evaluated, gam_dir,
                   out_var, out_sign>>

\* one pass of  for i in range(Xn.shape[1])
SweepStep ==
    /\ pc = "sweep"
    /\ i < Len(PAR_INDEX)
    /\ LET s == SweepOne(gam, Xn, med, X_med, y_pred, i)
       IN  /\ variances' = [variances EXCEPT ![i + 1] = s.variance]
           /\ grad_sign' = [grad_sign EXCEPT ![i + 1] = s.sign]
           /\ X_med' = s.X_med
           /\ y_pred' = s.y_pred
           /\ evaluated' = IF s.called THEN evaluated \cup {i} ELSE evaluated
    /\ i' = i + 1
    /\ UNCHANGED <<compare, inputs, pc, err, gp_file, N_gp, y, X, Xn, yn, gam, med, gam_dir,
                   out_var, out_sign>>

\* np.savetxt: the file is created when it is opened, complete when the
\* write ends; either step may fail
Save(old, n, data, outcome) ==
    CASE outcome = "ok" -> [exists |-> TRUE, n |-> n, complete |-> TRUE, data |-> data]
      [] outcome = "write_failed" ->
             [exists |-> TRUE, n |-> n, complete |-> FALSE, data |-> <<>>]
      [] outcome = "open_failed" -> old

\* N_out; np.savetxt(out_var, variances)
SaveVariances ==
    /\ pc = "sweep"
    /\ i = Len(PAR_INDEX)
    /\ \E outcome \in {"ok", "open_failed", "write_failed"} :
          /\ out_var' = Save(out_var, NOut(N_gp, Len(y), Len(yn)), variances, outcome)
          /\ IF outcome = "ok" THEN pc' = "saved_var" /\ err' = err
             ELSE Raise("OSError: variances")
    /\ UNCHANGED <<compare, inputs, gp_file, N_gp, y, X, Xn, yn, gam, variances, grad_sign, med,
                   X_med, i, y_pred, evaluated, gam_dir, out_sign>>

\* np.savetxt(out_sign, grad_sign)
SaveSigns ==
    /\ pc = "saved_var"
    /\ \E outcome \in {"ok", "open_failed", "write_failed"} :
          /\ out_sign' = Save(out_sign, NOut(N_gp, Len(y), Len(yn)), grad_sign, outcome)
          /\ IF outcome = "ok" THEN pc' = "done" /\ err' = err
             ELSE Raise("OSError: signs")
    /\ UNCHANGED <<compare, inputs, gp_file, N_gp, y, X, Xn, yn, gam, variances, grad_sign, med,
                   X_med, i, y_pred, evaluated, gam_dir, out_var>>

Next ==
    \/ FindGp
    \/ LoadY
    \/ LoadLHC
    \/ Clean
    \/ FitGam
    \/ SweepStep
    \/ SaveVariances
    \/ SaveSigns

Spec == Init /\ [][Next]_vars

----------------------------------------------------------------------------
(* Properties of find_gp_file *)

NotFound == "FileNotFoundError: No GP emulation file found"

\* find_gp_file has just returned or raised
Discovered == pc = "found" \/ (pc = "error" /\ err = NotFound)

\* the earliest tier whose test the name passes; 0 when it passes none
NameTier(r, name) ==
    IF Matches(precise(r), name) THEN 1
    ELSE IF \E k \in 1..2 : Matches(relaxed_patterns(r)[k], name) THEN 2
    ELSE IF /\ EndsWith(name, DOT_DAT)
            /\ Contains(name, PREFIX)
            /\ Contains(name, r.month)
            /\ Contains(name, FormatFixed(r.ilat, 3))
            /\ Contains(name, FormatFixed(r.ilon, 3)) THEN 3
    ELSE 0

RootIndex(root) == CHOOSE k \in 1..Len(SearchRoots) : SearchRoots[k] = root

\* files of the three lat folders whose name passes some tier's test
Matching == {f \in files : f.root \in dirs /\ NameTier(req, NameOf(f.id)) > 0}

\* C1: for lat=34.375, lon=-10.3125, month="jan", when no lat folder holds a
\* matching response file and the raw demo input lat_34.375_lon_-10.3125.dat
\* exists, find_gp_file returns that raw file and does not raise.
C1_RawFallbackReturned ==
    (/\ Discovered
     /\ req = Request(-165)
     /\ Matching = {}
     /\ "RAW4" \in raws)
    => /\ gp_file = [kind |-> "raw", root |-> "input", id |-> "RAW4"]
       /\ err # NotFound

\* C2 as claimed: a file of a later tier is returned only when no search root
\* holds a candidate of an earlier tier.
C2_TierOrderOverAllRoots ==
    (Discovered /\ err # NotFound)
    => IF gp_file.kind = "raw" THEN Matching = {}
       ELSE /\ NameTier(req, NameOf(gp_file.id)) > 0
            /\ \A f \in Matching :
                  NameTier(req, NameOf(f.id)) >= NameTier(req, NameOf(gp_file.id))

\* C2 as amended: the roots are searched in the order baseline, optimised,
\* plain, and the first root that holds a file passing any tier's test
\* supplies the result; within that root a file of a later tier is returned
\* only when the root holds no file of an earlier tier; the raw input is
\* returned only when no root holds a file passing any test.
C2_TierOrderWithinFirstRoot ==
    (Discovered /\ err # NotFound)
    => IF gp_file.kind = "raw" THEN Matching = {}
       ELSE /\ NameTier(req, NameOf(gp_file.id)) > 0
            /\ \E f \in Matching : f.root = gp_file.root /\ f.id = gp_file.id
            /\ \A f \in Matching :
                  /\ RootIndex(f.root) >= RootIndex(gp_file.root)
                  /\ f.root = gp_file.root
                     => NameTier(req, NameOf(f.id)) >= NameTier(req, NameOf(gp_file.id))

\* a token-matched file was returned from an earlier root although a later
\* root holds an exact match
C2_Witness ==
    /\ pc = "found"
    /\ gp_file.kind = "gp"
    /\ NameTier(req, NameOf(gp_file.id)) = 3
    /\ \E f \in Matching : NameTier(req, NameOf(f.id)) = 1

----------------------------------------------------------------------------
(* Properties of load_lhc_first_n and of the cleaning *)

\* load_lhc_first_n has just returned its matrix
Sampled == pc = "sampled"

\* the cleaning has just ended with rows left
Cleaned == pc = "cleaned"

NoFinite == "ValueError: No finite rows remain after cleaning X/y."

\* the run got as far as the cleaning step
ReachedCleaning ==
    \/ pc \in {"cleaned", "sweep", "saved_var", "done"}
    \/ pc = "error" /\ err \in {NoFinite, "FitError", "OSError: variances", "OSError: signs"}

\* the run got as far as the return of load_lhc_first_n
LoaderReturned ==
    \/ pc = "sampled"
    \/ ReachedCleaning
    \/ pc = "error" /\ err \in {"FileNotFoundError: Missing LHC sample file",
                                "ValueError: LHC must be [n,>=55]",
                                "ValueError: LHC has too few rows"}

RawRowCount == Len(lhc_file.rows)

RawColCount == IF lhc_file.rows = <<>> THEN 0 ELSE Len(lhc_file.rows[1])

\* C4: the matrix load_lhc_first_n returns has len(y) rows and 37 columns and
\* its entry [r][k] is raw row r at column PAR_INDEX[k]; PAR_INDEX is 37
\* distinct increasing positions within 0..54.
C4_FirstRowsVerbatim ==
    /\ Len(PAR_INDEX) = 37
    /\ \A k \in 1..Len(PAR_INDEX) : PAR_INDEX[k] \in 0..54
    /\ \A k \in 1..(Len(PAR_INDEX) - 1) : PAR_INDEX[k] < PAR_INDEX[k + 1]
    /\ Sampled
       => /\ Len(X) = Len(y)
          /\ \A r \in 1..Len(X) :
                /\ Len(X[r]) = 37
                /\ \A k \in 1..37 : X[r][k] = lhc_file.rows[r][PAR_INDEX[k] + 1]

\* the sample has more rows than the response and is cut to its first rows
C4_Witness ==
    /\ pc = "sampled"
    /\ Len(y) >= 2
    /\ RawRowCount > Len(y)
    /\ Len(X) = Len(y)

\* C5: load_lhc_first_n raises FileNotFoundError when the file is missing,
\* ValueError when the raw file has fewer than 55 columns or fewer than R
\* rows, and succeeds with an R x 37 matrix for every existing file with at
\* least 55 columns, at least R rows and at least one row.
C5_LoaderFailsOnlyByContract ==
    LoaderReturned
    => /\ ~lhc_file.exists
          => pc = "error" /\ err = "FileNotFoundError: Missing LHC sample file"
       /\ (lhc_file.exists /\ (RawColCount < 55 \/ RawRowCount < Len(y)))
          => pc = "error" /\ err \in {"ValueError: LHC must be [n,>=55]",
                                      "ValueError: LHC has too few rows"}
       /\ (lhc_file.exists /\ RawColCount >= 55 /\ RawRowCount >= Len(y)
                           /\ RawRowCount >= 1)
          => /\ err \notin {"FileNotFoundError: Missing LHC sample file",
                            "ValueError: LHC must be [n,>=55]",
                            "ValueError: LHC has too few rows"}
             /\ Len(X) = Len(y)
             /\ \A r \in 1..Len(X) : Len(X[r]) = 37

\* row r of (X, y) holds only finite values
RowFinite(r) == isfinite(y[r]) /\ \A k \in 1..37 : isfinite(X[r][k])

Kept == {r \in 1..Len(y) : RowFinite(r)}

\* the k-th kept row, in file order
KeptRow(k) == CHOOSE r \in Kept : Cardinality({q \in Kept : q <= r}) = k

\* C6: the kept rows (Xn, yn) are exactly the rows of (X, y) whose response
\* and 37 parameters are all finite, in their original order, each parameter
\* row with its own response; so len(clean) <= len(raw) and no kept value is
\* non-finite.
C6_CleaningKeepsFiniteRows ==
    Cleaned
    => /\ Len(yn) = Cardinality(Kept)
       /\ Len(Xn) = Len(yn)
       /\ Len(yn) <= Len(y)
       /\ \A k \in 1..Len(yn) :
             /\ yn[k] = y[KeptRow(k)]
             /\ Xn[k] = X[KeptRow(k)]
             /\ isfinite(yn[k])
             /\ \A j \in 1..37 : isfinite(Xn[k][j])

\* a row is dropped for its response, another for a parameter, a third is kept
C6_Witness ==
    /\ pc = "cleaned"
    /\ Len(yn) >= 1
    /\ \E r \in 1..Len(y) : ~isfinite(y[r])
    /\ \E r \in 1..Len(y) : isfinite(y[r]) /\ ~RowFinite(r)

NoOutputs == ~out_var.exists /\ ~out_sign.exists

\* C7: when no row has a finite response and 37 finite parameters (an empty
\* or all-NaN response in particular), the run that reaches the cleaning
\* fails with the "no finite rows" error, the model is never fitted and no
\* output file is written.
C7_EmptyCleanIsFatal ==
    /\ (ReachedCleaning /\ Kept = {})
       => pc = "error" /\ err = NoFinite /\ gam = NoSurface /\ NoOutputs
    /\ (\A r \in 1..Len(y) : ~isfinite(y[r])) => gam = NoSurface /\ NoOutputs
    /\ (pc = "error" /\ err = NoFinite) => Kept = {}

\* an all-NaN response of several rows ended the run
C7_Witness ==
    /\ pc = "error"
    /\ err = NoFinite
    /\ Len(y) >= 2
    /\ \A r \in 1..Len(y) : ~isfinite(y[r])

----------------------------------------------------------------------------
(* Properties of the sweep and of the output *)

\* the loop over the parameters has ended
Swept == pc \in {"saved_var", "done"} \/ (pc = "sweep" /\ i = 37)

\* the label the claim gives: the parsed count if it equals the length of
\* the raw response vector, else the number of cleaned rows
ClaimedLabel == IF N_gp # None /\ N_gp = Len(y) THEN N_gp ELSE Len(yn)

ConstantColumn(n) == \A r, q \in 1..Len(Xn) : Xn[r][n + 1] = Xn[q][n + 1]

\* C8: for every parameter whose cleaned column has zero variance the run
\* yields importance 0 and sign 0, and the surface is not evaluated for it.
C8_DegenerateColumnGuard ==
    Swept
    => \A n \in 0..(i - 1) :
          ConstantColumn(n)
          => /\ variances[n + 1].num = 0
             /\ grad_sign[n + 1] = 0
             /\ n \notin evaluated

\* all parameters are swept, over several rows: one column is constant and
\* skipped, another is evaluated
C8_Witness ==
    /\ pc = "sweep"
    /\ i = 37
    /\ Len(Xn) >= 2
    /\ \E n \in 0..36 : ConstantColumn(n) /\ n \notin evaluated
    /\ evaluated # {}

\* the last pass evaluated the surface, and its predictions are finite and
\* rise by c per unit of the swept column
LinearSweep(c) ==
    /\ pc = "sweep"
    /\ i >= 1
    /\ (i - 1) \in evaluated
    /\ \A r \in 1..Len(Xn) : isfinite(y_pred[r])
    /\ \A r, q \in 1..Len(Xn) : y_pred[r] - y_pred[q] = c * (Xn[r][i] - Xn[q][i])

Slopes == {-2, -1, 1, 2}

Sgn(c) == IF c > 0 THEN 1 ELSE IF c < 0 THEN -1 ELSE 0

\* C9 as claimed: predictions linear in the swept column with slope c give
\* sign +1 for c > 0 and -1 for c < 0, for every column with at least two
\* distinct observed values.
C9_SignOfLinearSweep ==
    \A c \in Slopes :
        (LinearSweep(c) /\ ~ConstantColumn(i - 1)) => grad_sign[i] = Sgn(c)

\* the sample variance (ddof=1) of the cleaned column of 0-based index n is
\* at least 1e-15: n(n-1) times it is CoMoment, in squared units of 1e-16
VarianceAtLeastEps(n) ==
    LET x == Column(Xn, n + 1)
    IN  Len(x) >= 2 /\ CoMoment(x, x) >= 10 * Len(x) * (Len(x) - 1)

\* C9 as amended: predictions linear in the swept column with slope c give
\* sign +1 for c > 0 and -1 for c < 0, for every column whose sample variance
\* over the cleaned rows is at least 1e-15.
C9_SignOfLinearSweepAboveEps ==
    \A c \in Slopes :
        (LinearSweep(c) /\ VarianceAtLeastEps(i - 1)) => grad_sign[i] = Sgn(c)

\* predictions exactly -2 * x over a column of sufficient variance: sign -1
C9_Witness ==
    /\ LinearSweep(-2)
    /\ \A r \in 1..Len(Xn) : y_pred[r] = (-2) * Xn[r][i]
    /\ VarianceAtLeastEps(i - 1)
    /\ grad_sign[i] = -1

\* C10: in every run that reaches the write step the importance vector and
\* the sign vector have 37 entries each, in PAR_INDEX order (a surface that
\* is c * x_k gives parameter k a positive importance exactly when its
\* column varies, and the sign of c when the column's variance reaches
\* 1e-15), every importance is a non-negative finite number and every sign
\* is -1, 0 or +1.
C10_SensitivityRecordShape ==
    Swept
    => /\ Len(variances) = 37
       /\ Len(grad_sign) = 37
       /\ \A k \in 1..37 :
             /\ variances[k].num >= 0
             /\ variances[k].den > 0
             /\ isfinite(variances[k].num)
             /\ grad_sign[k] \in {-1, 0, 1}
       /\ gam.kind = "col"
          => /\ variances[gam.k].num > 0 <=> ~ConstantColumn(gam.k - 1)
             /\ VarianceAtLeastEps(gam.k - 1) => grad_sign[gam.k] = Sgn(gam.c)
       /\ out_var.complete => out_var.data = variances
       /\ out_sign.complete => out_sign.data = grad_sign

\* both files are written; a positive importance, a negative sign and a
\* zero sign are present
C10_Witness ==
    /\ pc = "done"
    /\ \E k \in 1..37 : variances[k].num > 0
    /\ \E k \in 1..37 : grad_sign[k] = -1
    /\ \E k \in 1..37 : grad_sign[k] = 0

----------------------------------------------------------------------------
(* Properties of the write step *)

\* the run has ended with a fatal error
Failed == pc = "error"

\* the run has ended, one way or the other
Ended == pc \in {"error", "done"}

\* C11: in every run that ends in a fatal error no output file of the run
\* exists afterwards; the variance file is never left without the matching
\* sign file; nothing is written before all 37 parameters are computed.
C11_NoPartialOutput ==
    /\ Failed => ~out_var.exists /\ ~out_sign.exists
    /\ Ended /\ out_var.exists => out_sign.exists /\ out_sign.complete
    /\ (out_var.exists \/ out_sign.exists) => i = Len(PAR_INDEX)

----------------------------------------------------------------------------
(* The comparison utilities: run_compare_gam, run_compare_gp and
   benchmark_gp_tiny *)

MaxTasks == 2      \* rows of examples/tasks_table.csv

\* the grid points, in sixteenths of a degree
POINTS == <<[lat |-> 550, lon |-> -165], [lat |-> 570, lon |-> 105],
            [lat |-> 590, lon |-> 165], [lat |-> 610, lon |-> 45]>>

Utilities == {"run_compare_gam", "run_compare_gp", "benchmark_gp_tiny"}

\* exit statuses a subprocess may return
ReturnCodes == {0, 1}

\* readings of t1 - t0
Elapsed == {1, 2}

CommandFailed_never(returncode) == FALSE

\* proc.returncode != 0; subprocess.run(check=True) raises on the same test
CommandFailed(returncode) == returncode # 0

\* main() of GAM_baseline.py does not run
IdleMain ==
    /\ req = Request(-165)
    /\ dirs = {}
    /\ files = {}
    /\ raws = {}
    /\ gp_data = GpRows(0, 1, {})
    /\ lhc_file = [exists |-> FALSE, rows |-> <<>>]
    /\ pc = "idle"
    /\ FreshRun

InitCompare ==
    /\ IdleMain
    /\ util \in Utilities
    /\ scripts \in BOOLEAN
    /\ tasks \in (IF util = "benchmark_gp_tiny" THEN 0..MaxTasks ELSE {0})
    /\ cpc = "start"
    /\ cerr = ""
    /\ mode = "baseline"
    /\ task = 1
    /\ launched = <<>>
    /\ rows = <<>>
    /\ moved = {}
    /\ csv = {}

main_vars == <<req, dirs, files, raws, gp_data, lhc_file, pc, err, gp_file, N_gp, y,
               X, Xn, yn, gam, variances, grad_sign, med, X_med, i, y_pred,
               evaluated, gam_dir, out_var, out_sign>>

Abort(e) == cpc' = "error" /\ cerr' = e

\* main() of run_compare_gam and run_compare_gp up to the loop: the
\* existence checks (run_compare_gam only) and rows = []
CompareStart ==
    /\ cpc = "start"
    /\ util \in {"run_compare_gam", "run_compare_gp"}
    /\ IF util = "run_compare_gam" /\ ~scripts
       THEN Abort("FileNotFoundError: script not found")
       ELSE cpc' = "loop" /\ cerr' = cerr
    /\ UNCHANGED <<main_vars, util, scripts, tasks, mode, task, launched, rows, moved,
                   csv>>

\* one call of run_baseline / run_optimised / run_r in the loop over POINTS,
\* with the rows.append that follows it
RunPoint ==
    /\ cpc = "loop"
    /\ util \in {"run_compare_gam", "run_compare_gp"}
    /\ \E spawned \in BOOLEAN, returncode \in ReturnCodes, dt \in Elapsed :
          /\ ~spawned => returncode = 0 /\ dt = 1
          /\ (util = "run_compare_gam" /\ mode = "baseline") => spawned
          /\ launched' = Append(launched, [mode |-> mode, task |-> task,
                                           spawned |-> spawned,
                                           returncode |-> returncode])
          /\ IF ~spawned
             THEN /\ Abort("FileNotFoundError: Rscript")
                  /\ UNCHANGED <<rows, mode, task>>
             ELSE IF CommandFailed(returncode)
             THEN /\ Abort("RuntimeError: Command failed")
                  /\ UNCHANGED <<rows, mode, task>>
             ELSE /\ rows' = Append(rows, [mode |-> mode, task |-> task, ok |-> TRUE,
                                           elapsed |-> dt])
                  /\ cerr' = cerr
                  /\ IF mode = "baseline"
                     THEN mode' = "optimised" /\ task' = task /\ cpc' = cpc
                     ELSE IF task < Len(POINTS)
                     THEN mode' = "baseline" /\ task' = task + 1 /\ cpc' = cpc
                     ELSE mode' = mode /\ task' = task /\ cpc' = "table"
    /\ UNCHANGED <<main_vars, util, scripts, tasks, moved, csv>>

\* the paired table is printed and timing_compare.csv is written
WriteTable ==
    /\ cpc = "table"
    /\ csv' = csv \cup {"timing_compare.csv"}
    /\ cpc' = "done"
    /\ UNCHANGED <<main_vars, util, scripts, tasks, cerr, mode, task, launched, rows,
                   moved>>

\* main() of benchmark_gp_tiny up to the first run_mode: the existence check,
\* read_tasks() and the output folders
BenchmarkStart ==
    /\ cpc = "start"
    /\ util = "benchmark_gp_tiny"
    /\ IF ~scripts THEN Abort("SystemExit: scripts not found")
       ELSE IF tasks = 0 THEN Abort("SystemExit: no rows")
       ELSE cpc' = "loop" /\ cerr' = cerr
    /\ UNCHANGED <<main_vars, util, scripts, tasks, mode, task, launched, rows, moved,
                   csv>>

\* one pass of the loop of run_mode: subprocess.run(cmd, check=True) inside
\* try/except CalledProcessError, then per_task.append
RunTask ==
    /\ cpc = "loop"
    /\ util = "benchmark_gp_tiny"
    /\ \E spawned \in BOOLEAN, returncode \in ReturnCodes, dt \in Elapsed :
          /\ ~spawned => returncode = 0 /\ dt = 1
          /\ launched' = Append(launched, [mode |-> mode, task |-> task,
                                           spawned |-> spawned,
                                           returncode |-> returncode])
          /\ IF ~spawned
             THEN /\ Abort("FileNotFoundError: Rscript")
                  /\ UNCHANGED <<rows, task>>
             ELSE /\ rows' = Append(rows, [mode |-> mode, task |-> task,
                                           ok |-> ~CommandFailed(returncode),
                                           elapsed |-> dt])
                  /\ cerr' = cerr
                  /\ IF task < tasks
                     THEN task' = task + 1 /\ cpc' = cpc
                     ELSE task' = task /\ cpc' = "organise"
    /\ UNCHANGED <<main_vars, util, scripts, tasks, mode, moved, csv>>

\* the end of run_mode: the new output files are moved to the mode's folder;
\* main() then runs the optimised mode or goes on to write_summary
MoveOutputs ==
    /\ cpc = "organise"
    /\ moved' = moved \cup {mode}
    /\ IF mode = "baseline"
       THEN mode' = "optimised" /\ task' = 1 /\ cpc' = "loop"
       ELSE mode' = mode /\ task' = task /\ cpc' = "summary"
    /\ UNCHANGED <<main_vars, util, scripts, tasks, cerr, launched, rows, csv>>

\* write_summary: the per-task table and the comparison summary
WriteSummary ==
    /\ cpc = "summary"
    /\ csv' = csv \cup {"gp_benchmark_per_task.csv", "gp_benchmark_summary.csv"}
    /\ cpc' = "done"
    /\ UNCHANGED <<main_vars, util, scripts, tasks, cerr, mode, task, launched, rows,
                   moved>>

NextCompare ==
    \/ CompareStart
    \/ RunPoint
    \/ WriteTable
    \/ BenchmarkStart
    \/ RunTask
    \/ MoveOutputs
    \/ WriteSummary

SpecCompare == InitCompare /\ [][NextCompare]_vars

----------------------------------------------------------------------------
(* Properties of the comparison utilities *)

\* the k-th subprocess run exited with a non-zero status
ExitedNonZero(k) == launched[k].spawned /\ launched[k].returncode # 0

\* no run of a case on a point is launched twice
NoRetry ==
    \A j, k \in 1..Len(launched) :
        (launched[j].mode = launched[k].mode /\ launched[j].task = launched[k].task)
        => j = k

\* the run aborted at the first non-zero exit
AbortedAtFailure ==
    \A k \in 1..Len(launched) :
        ExitedNonZero(k) => /\ k = Len(launched)
                            /\ cpc = "error"
                            /\ csv = {}

\* C12 as claimed: in each of run_compare_gam, run_compare_gp and
\* benchmark_gp_tiny, as soon as one subprocess run exits with a non-zero
\* status the whole run aborts: no further subprocess is launched, the
\* failed run is not retried, and no timing comparison table is written.
C12_FailureAbortsEveryUtility ==
    util \in Utilities => AbortedAtFailure /\ NoRetry

\* C12 as amended: run_compare_gam and run_compare_gp abort at the first
\* non-zero exit (no further subprocess, no retry, no table);
\* benchmark_gp_tiny records the failed task with ok = False and goes on:
\* every task of both modes is launched exactly once, in order, and both
\* tables are written at the end.
C12_FailureAbortsCompareScripts ==
    /\ util \in {"run_compare_gam", "run_compare_gp"} => AbortedAtFailure
    /\ util \in Utilities => NoRetry
    /\ util = "benchmark_gp_tiny"
       => /\ \A k \in 1..Len(rows) :
                /\ rows[k].mode = launched[k].mode
                /\ rows[k].task = launched[k].task
                /\ rows[k].ok = ~ExitedNonZero(k)
          /\ (cpc # "error") => Len(rows) = Len(launched)
          /\ cpc = "done"
             => /\ Len(launched) = 2 * tasks
                /\ \A k \in 1..Len(launched) :
                      /\ launched[k].mode = (IF k <= tasks THEN "baseline"
                                             ELSE "optimised")
                      /\ launched[k].task = ((k - 1) % tasks) + 1
                /\ csv = {"gp_benchmark_per_task.csv", "gp_benchmark_summary.csv"}

\* run_compare_gam aborted at its third subprocess, which exited non-zero
\* after two successful runs
C12_Witness ==
    /\ util = "run_compare_gam"
    /\ cpc = "error"
    /\ Len(launched) = 3
    /\ ExitedNonZero(3)
    /\ Len(rows) = 2
    /\ csv = {}

----------------------------------------------------------------------------
(* Properties of the sweep's design buffer *)

\* the synthetic design matrix of the sweep of 0-based parameter n
SweepDesign(n) ==
    [r \in 1..Len(Xn) |->
        [j \in 1..Len(PAR_INDEX) |->
            IF j = n + 1 THEN Xn[r][j] ELSE Median(Column(Xn, j))]]

\* the pass of the loop that has just ended called gam.predict
JustEvaluated == pc = "sweep" /\ i >= 1 /\ (i - 1) \in evaluated

\* C13: at every evaluation of the fitted surface for parameter i the design
\* buffer X_med has, in every row r, column i equal to Xn[r][i] and every
\* other column j equal to the median of Xn[:, j]; no value written for a
\* previously swept parameter remains.
C13_SweepDesignMatrix ==
    JustEvaluated => X_med = SweepDesign(i - 1)

\* the second parameter was evaluated after the first, whose observed values
\* differ from its median and are no longer in the buffer
C13_Witness ==
    /\ JustEvaluated
    /\ i = 2
    /\ 0 \in evaluated
    /\ \E r \in 1..Len(Xn) : /\ Xn[r][1] # Median(Column(Xn, 1))
                             /\ X_med[r][1] = Median(Column(Xn, 1))

----------------------------------------------------------------------------
(* The grid cell and month of the file find_gp_file returns *)

\* position of the first occurrence of needle in hay, 0 if there is none
IndexOf(hay, needle) ==
    IF Contains(hay, needle)
    THEN CHOOSE k \in 1..Len(hay) :
            /\ k + Len(needle) - 1 <= Len(hay)
            /\ SubSeq(hay, k, k + Len(needle) - 1) = needle
            /\ \A j \in 1..(k - 1) : SubSeq(hay, j, j + Len(needle) - 1) # needle
    ELSE 0

\* the text of s before the first occurrence of tok (all of s if none)
Before(s, tok) == IF Contains(s, tok) THEN SubSeq(s, 1, IndexOf(s, tok) - 1) ELSE s

\* the text of s after the first occurrence of tok
After(s, tok) == SubSeq(s, IndexOf(s, tok) + Len(tok), Len(s))

\* the month, latitude and longitude fields of a GP output file name
MonthField(name) == Before(After(name, PREFIX), ILAT)
LatField(name) == Before(After(name, ILAT), ILON)
LonField(name) ==
    LET rest == After(name, ILON)
    IN  IF Contains(rest, <<"_">>) THEN Before(rest, <<"_">>) ELSE Before(rest, DOT_DAT)

\* the name encodes the requested month and cell, the coordinates written
\* in one of the precisions the patterns use
EncodesRequest(r, name) ==
    /\ MonthField(name) = r.month
    /\ LatField(name) \in {FormatFixed(r.ilat, 3), FormatRepr(r.ilat)}
    /\ LonField(name) \in {FormatFixed(r.ilon, 4), FormatFixed(r.ilon, 3),
                           FormatRepr(r.ilon)}

\* C14: whenever find_gp_file returns a file of one of the GP output folders
\* (not the raw fallback), the file's name encodes exactly the requested
\* month, latitude and longitude; a file of another longitude (such as the
\* opposite sign) or of another month is never returned, in any tier.
C14_ReturnsRequestedCell ==
    (pc = "found" /\ gp_file.kind = "gp") => EncodesRequest(req, NameOf(gp_file.id))

====
